---- MODULE Spec2Model ----
(***************************************************************************)
(* integral-db: the left-right wrapped JellyfishMerkleTree (lr_trie) over  *)
(* a shared versioned backend.                                             *)
(*                                                                         *)
(* One writer thread owns the LeftRightTrie (its WriteHandle); reader      *)
(* threads own a ReadHandle each (made by factory()).  A tree value is a   *)
(* reference-counted handle to the backend: both left-right copies, and    *)
(* every clone taken by handle(), read and write the one backend `db`.     *)
(***************************************************************************)
EXTENDS Integers, Sequences, FiniteSets, TLC

\* ---------------------------------------------------------------- bounds
NumReaders == 2
NumKeys == 2
NumValues == 1
MaxExtend == 2
MaxCalls == 3
MaxEnters == 2
NumHandleThreads == 1
NumColumnFamilies == 3
NumPebbleValues == 2
MaxFaults == 1

\* absorb_op.rs: const INCREMENT_ARG: u64 = 1
INCREMENT_ARG == 1

Readers == 1..NumReaders
Keys == 1..NumKeys
UserValues == 1..NumValues

\* ------------------------------------------------------- options, codec
\* Option<T>: None is the empty sequence, Some(x) the one-element sequence.
None == <<>>
Some(x) == <<x>>
is_some(o) == o # None
unwrap(o) == o[1]

\* bincode::serialize of a user key or value: an opaque byte string.
serialize(x) == [bytes |-> x]
\* bincode::deserialize of a stored byte string.
deserialize(b) == b.bytes
\* KeyHash::with::<Sha256>(bytes): the 32-byte digest indexing the tree.
KeyHashWith(b) == [sha256 |-> b.bytes]

KeyHashes == {KeyHashWith(serialize(k)) : k \in Keys}
OwnedValues == {serialize(v) : v \in UserValues}
OptValues == {None} \cup {Some(b) : b \in OwnedValues}

\* ------------------------------------------------------------- backend
\* The value history every tree handle reads: per KeyHash the list of
\* <<version, Option<OwnedValue>>> entries; and whether the backend's
\* TreeReader currently fails the reads of tree nodes.
EmptyDb == [value_history |-> [kh \in KeyHashes |-> <<>>], node_reads_fail |-> FALSE]

Max(S) == CHOOSE x \in S : \A y \in S : y <= x

\* F applied to the value of v, which is computed once.
Strict(v, F(_)) == CHOOSE r \in {F(x) : x \in {v}} : TRUE
Last(s) == s[Len(s)]

\* A put_value that pushes every entry.
put_value_push(h, vers, value) == [ok |-> TRUE, history |-> Append(h, <<vers, value>>)]

\* MockTreeStore put_value: entries of one key are pushed in version order;
\* an equal version overwrites the last entry, a smaller one is refused.
put_value(h, vers, value) ==
    IF Len(h) = 0 THEN [ok |-> TRUE, history |-> <<<<vers, value>>>>]
    ELSE IF vers < Last(h)[1] THEN [ok |-> FALSE, history |-> h]
    ELSE IF vers = Last(h)[1]
         THEN [ok |-> TRUE, history |-> [h EXCEPT ![Len(h)] = <<vers, value>>]]
         ELSE [ok |-> TRUE, history |-> Append(h, <<vers, value>>)]

\* The values of a node batch are written in key order; the first refused
\* value ends the write with an error, the earlier ones stay written.
RECURSIVE WriteValues(_, _, _)
WriteValues(hist, batch, todo) ==
    IF todo = {} THEN [ok |-> TRUE, value_history |-> hist]
    ELSE LET kh == CHOOSE k \in todo : \A o \in todo : k.sha256 <= o.sha256
         IN  Strict(put_value(hist[kh], batch.version, batch.values[kh]),
                    LAMBDA r :
                        IF ~r.ok THEN [ok |-> FALSE, value_history |-> hist]
                        ELSE WriteValues([hist EXCEPT ![kh] = r.history],
                                         batch, todo \ {kh}))

\* TreeWriter::write_node_batch on the backend d.
write_node_batch(d, node_batch) ==
    Strict(WriteValues(d.value_history, node_batch, DOMAIN node_batch.values),
           LAMBDA w : [ok |-> w.ok, db |-> [d EXCEPT !.value_history = w.value_history]])

\* JellyfishMerkleTree::put_value_set: the batch of one value set at one
\* version; a KeyHash given twice keeps its later value.  The nodes on the
\* keys' paths are read through the TreeReader, whose error is returned;
\* the backend is not written here.
put_value_set(d, value_set, vers) ==
    LET touched == {value_set[i][1] : i \in DOMAIN value_set}
        last(kh) == Max({i \in DOMAIN value_set : value_set[i][1] = kh})
    IN  [ok |-> ~d.node_reads_fail,
         node_batch |-> [version |-> vers,
                         values |-> [kh \in touched |-> value_set[last(kh)][2]]]]

\* ------------------------------------------------------ reads of a tree
VersionsOf(h) == {h[i][1] : i \in 1..Len(h)}

\* A version that counts the live keys instead.
version_counts_live(d) ==
    Cardinality({kh \in KeyHashes :
        /\ Len(d.value_history[kh]) > 0
        /\ is_some(Last(d.value_history[kh])[2])})

\* VersionedTrie::version: the latest version known to the database.
version(d) ==
    LET vs == UNION {VersionsOf(d.value_history[kh]) : kh \in KeyHashes}
    IN  IF vs = {} THEN 0 ELSE Max(vs)

\* A get that reads the latest entry whatever the version asked for.
get_latest(d, kh, vers) ==
    LET h == d.value_history[kh]
    IN  IF Len(h) = 0 THEN None ELSE Last(h)[2]

\* JellyfishMerkleTree::get: the value of the greatest entry <= vers.
get(d, kh, vers) ==
    LET h == d.value_history[kh]
        idx == {i \in 1..Len(h) : h[i][1] <= vers}
    IN  IF idx = {} THEN None ELSE h[Max(idx)][2]

contains(d, kh, vers) == is_some(get(d, kh, vers))

\* A len that counts every key that has a history.
len_counts_history(d) == Cardinality({kh \in KeyHashes : Len(d.value_history[kh]) > 0})

\* VersionedTrie::len: the keys holding Some value at the latest version.
len(d) == Cardinality({kh \in KeyHashes : contains(d, kh, version(d))})

is_empty(d) == len(d) = 0

\* VersionedDatabase::value_history: the keys that have a history.
value_history(d) ==
    [kh \in {k \in KeyHashes : Len(d.value_history[k]) > 0} |-> d.value_history[kh]]

\* A root that commits to the whole store, whatever the version.
root_hash_store(d, vers) == [kh \in KeyHashes |-> d.value_history[kh]]

\* The hashes of the tree's nodes; a collision-free hash is the content it
\* commits to.
Placeholder == [node |-> "placeholder"]
LeafHash(leaf) == [node |-> "leaf", key |-> leaf.key, value_hash |-> leaf.value]
InternalHash(l, r) == [node |-> "internal", left |-> l, right |-> r]

\* The bit of a KeyHash that chooses the child at a depth.
BitAt(kh, depth) == (kh.sha256 \div (2 ^ depth)) % 2

\* The leaves of the tree at a version: the keys holding Some value.
LeavesAt(d, vers) ==
    {[key |-> kh, value |-> unwrap(get(d, kh, vers))] :
        kh \in {k \in KeyHashes : contains(d, k, vers)}}

\* The hash of the subtree holding the given leaves below a depth: an empty
\* subtree is the placeholder, a subtree of one leaf is that leaf.
RECURSIVE SubtreeHash(_, _)
SubtreeHash(leaves, depth) ==
    IF leaves = {} THEN Placeholder
    ELSE IF Cardinality(leaves) = 1 THEN LeafHash(CHOOSE l \in leaves : TRUE)
    ELSE InternalHash(
             SubtreeHash({l \in leaves : BitAt(l.key, depth) = 0}, depth + 1),
             SubtreeHash({l \in leaves : BitAt(l.key, depth) = 1}, depth + 1))

\* get_root_hash: the hash of the root node of a version.
root_hash(d, vers) == Strict(LeavesAt(d, vers), LAMBDA leaves : SubtreeHash(leaves, 0))

\* The walk of get_proof along the key's bits: the leaf it ends at (None at
\* an empty child) and the sibling hashes met, the deepest first.
RECURSIVE ProofWalk(_, _, _)
ProofWalk(leaves, kh, depth) ==
    IF leaves = {} THEN [leaf |-> None, siblings |-> <<>>]
    ELSE IF Cardinality(leaves) = 1
         THEN [leaf |-> Some(CHOOSE l \in leaves : TRUE), siblings |-> <<>>]
    ELSE LET mine == {l \in leaves : BitAt(l.key, depth) = BitAt(kh, depth)}
             sub == ProofWalk(mine, kh, depth + 1)
         IN  [leaf |-> sub.leaf,
              siblings |-> Append(sub.siblings, SubtreeHash(leaves \ mine, depth + 1))]

\* JellyfishMerkleTree::get_proof: the SparseMerkleProof of a key at a version.
get_proof(d, kh, vers) == ProofWalk(LeavesAt(d, vers), kh, 0)

\* The root a proof commits to: the leaf (or the placeholder) folded with
\* the siblings along the key's path, from the deepest up.
RECURSIVE FoldSiblings(_, _, _, _)
FoldSiblings(cur, siblings, kh, i) ==
    IF i > Len(siblings) THEN cur
    ELSE LET depth == Len(siblings) - i
         IN  FoldSiblings(IF BitAt(kh, depth) = 0
                          THEN InternalHash(cur, siblings[i])
                          ELSE InternalHash(siblings[i], cur),
                          siblings, kh, i + 1)

\* The two keys share their first n bits.
CommonPrefix(a, b, n) == \A depth \in 0..(n - 1) : BitAt(a, depth) = BitAt(b, depth)

\* SparseMerkleProof::verify: an inclusion proof carries the key's leaf with
\* the value's hash, an exclusion proof an empty child or the leaf of
\* another key on the same path; the folded root is the expected one.
proof_verify(proof, expected_root_hash, kh, value) ==
    /\ IF is_some(value)
       THEN /\ is_some(proof.leaf)
            /\ unwrap(proof.leaf).key = kh
            /\ unwrap(proof.leaf).value = unwrap(value)
       ELSE \/ proof.leaf = None
            \/ /\ unwrap(proof.leaf).key # kh
               /\ CommonPrefix(unwrap(proof.leaf).key, kh, Len(proof.siblings))
    /\ FoldSiblings(IF is_some(proof.leaf) THEN LeafHash(unwrap(proof.leaf))
                    ELSE Placeholder,
                    proof.siblings, kh, 1) = expected_root_hash

\* JellyfishMerkleTree::verify_proof: the proof is verified for the value
\* the tree holds for the key at the version.
verify_proof(d, kh, vers, expected_root_hash, proof) ==
    proof_verify(proof, expected_root_hash, kh,
                 IF kh \in KeyHashes THEN get(d, kh, vers) ELSE None)

\* JellyfishMerkleIterator from the smallest key: the Some values at vers.
iter(d, vers) == {<<kh, unwrap(get(d, kh, vers))>> : kh \in {k \in KeyHashes : contains(d, k, vers)}}

\* ------------------------------------------------------------- wrapper
Ok(x) == [ok |-> TRUE, value |-> <<x>>, err |-> ""]
Err(e) == [ok |-> FALSE, value |-> <<>>, err |-> e]

\* A get that answers a missing value with the default value.
wrapper_get_default(d, key, vers) ==
    LET raw_value_opt == get(d, KeyHashWith(serialize(key)), vers)
    IN  IF raw_value_opt = None THEN Ok(0) ELSE Ok(deserialize(unwrap(raw_value_opt)))

\* JellyfishMerkleTreeWrapper::get on a tree whose backend is d.
wrapper_get(d, key, vers) ==
    LET raw_value_opt == get(d, KeyHashWith(serialize(key)), vers)
    IN  IF raw_value_opt = None
        THEN Err("Other: received none value from inner trie")
        ELSE Ok(deserialize(unwrap(raw_value_opt)))

\* JellyfishMerkleTreeWrapper::contains on a tree whose backend is d.
wrapper_contains(d, key, vers) == Ok(contains(d, KeyHashWith(serialize(key)), vers))

\* The unit value of Ok(()).
Unit == <<>>

\* A get_proof that hashes the default (empty) serialization of the key.
wrapper_get_proof_default(d, key, vers) ==
    Ok(get_proof(d, KeyHashWith([bytes |-> 0]), vers))

\* JellyfishMerkleTreeWrapper::get_proof on a tree whose backend is d.
wrapper_get_proof(d, key, vers) ==
    Ok(get_proof(d, KeyHashWith(serialize(key)), vers))

\* JellyfishMerkleTreeWrapper::verify_proof on a tree whose backend is d.
wrapper_verify_proof(d, element_key, vers, expected_root_hash, proof) ==
    IF verify_proof(d, element_key, vers, expected_root_hash, proof)
    THEN Ok(Unit)
    ELSE Err("Other: proof verification failed")

\* An insert that builds the batch and does not persist it.
wrapper_insert_nowrite(d, key, value) == [db |-> d, ret |-> Ok(Unit)]

\* An insert that returns the error of put_value_set after writing the
\* batch all the same.
wrapper_insert_write_anyway(d, key, value) ==
    LET kh == KeyHashWith(serialize(key))
        r == put_value_set(d, <<<<kh, Some(serialize(value))>>>>, version(d) + 1)
        w == write_node_batch(d, r.node_batch)
    IN  [db |-> w.db,
         ret |-> IF ~r.ok THEN Err("Other: put_value_set")
                 ELSE IF w.ok THEN Ok(Unit) ELSE Err("Other: write_node_batch")]

\* JellyfishMerkleTreeWrapper::insert on a tree whose backend is d: the
\* backend after it and the Result returned.
wrapper_insert(d, key, value) ==
    LET kh == KeyHashWith(serialize(key))
        r == put_value_set(d, <<<<kh, Some(serialize(value))>>>>, version(d) + 1)
    IN  IF ~r.ok THEN [db |-> d, ret |-> Err("Other: put_value_set")]
        ELSE LET w == write_node_batch(d, r.node_batch)
             IN  [db |-> w.db,
                  ret |-> IF w.ok THEN Ok(Unit) ELSE Err("Other: write_node_batch")]

\* A remove that writes at the current version.
wrapper_remove_same_version(d, key) ==
    LET kh == KeyHashWith(serialize(key))
        vers == version(d)
        w == write_node_batch(d, put_value_set(d, <<<<kh, None>>>>, vers).node_batch)
    IN  [db |-> w.db, ret |-> Ok(~contains(w.db, kh, vers))]

\* A remove that forgets the key's history.
wrapper_remove_purge(d, key) ==
    LET kh == KeyHashWith(serialize(key))
        vers == version(d) + 1
    IN  [db |-> [d EXCEPT !.value_history[kh] = <<<<vers, None>>>>], ret |-> Ok(TRUE)]

\* A remove that returns whether the key is still contained.
wrapper_remove_unnegated(d, key) ==
    LET kh == KeyHashWith(serialize(key))
        vers == version(d) + 1
        w == write_node_batch(d, put_value_set(d, <<<<kh, None>>>>, vers).node_batch)
    IN  [db |-> w.db, ret |-> Ok(contains(w.db, kh, vers))]

\* JellyfishMerkleTreeWrapper::remove on a tree whose backend is d: the
\* backend after it and the Result returned.
wrapper_remove(d, key) ==
    LET kh == KeyHashWith(serialize(key))
        vers == version(d) + 1
        r == put_value_set(d, <<<<kh, None>>>>, vers)
    IN  IF ~r.ok THEN [db |-> d, ret |-> Err("Other: put_value_set")]
        ELSE LET w == write_node_batch(d, r.node_batch)
             IN  IF ~w.ok THEN [db |-> w.db, ret |-> Err("Other: write_node_batch")]
                 ELSE [db |-> w.db, ret |-> Ok(~contains(w.db, kh, vers))]

\* --------------------------------------------------------- operations
\* op.rs Operation, with the Add and Remove bodies as one-pair value sets.
OpAdd(kv, vers) == [tag |-> "Add", kvs |-> <<kv>>, vers |-> vers]
OpRemove(kh, vers) == [tag |-> "Remove", kvs |-> <<<<kh, None>>>>, vers |-> vers]
OpExtend(kvs, vers) == [tag |-> "Extend", kvs |-> kvs, vers |-> vers]

\* A u64 is its four 16-bit limbs, the most significant first.
LimbBase == 65536
U64_MAX == <<LimbBase - 1, LimbBase - 1, LimbBase - 1, LimbBase - 1>>
U64Default == <<0, 0, 0, 0>>

\* The u64 of a version of this model's range, and back.
AsU64(n) == <<0, 0, n \div LimbBase, n % LimbBase>>
AsNat(u) == u[3] * LimbBase + u[4]

\* The sum of the limbs 1..i of two u64 with a carry in: the limbs of the
\* sum and the carry out.
RECURSIVE AddFrom(_, _, _, _)
AddFrom(a, b, i, carry) ==
    IF i = 0 THEN [limbs |-> <<>>, carry |-> carry]
    ELSE LET sum == a[i] + b[i] + carry
         IN  Strict(AddFrom(a, b, i - 1, sum \div LimbBase),
                    LAMBDA rest : [limbs |-> Append(rest.limbs, sum % LimbBase),
                                   carry |-> rest.carry])

\* u64::checked_add: None when the sum does not fit 64 bits.
checked_add(a, b) ==
    Strict(AddFrom(a, b, 4, 0),
           LAMBDA r : IF r.carry = 0 THEN Some(r.limbs) ELSE None)

\* Option<u64>::unwrap_or_default.
unwrap_or_default(o) == IF is_some(o) THEN unwrap(o) ELSE U64Default

\* A version step that does not advance.
increment_version_same(vers) == vers

\* A version step of two.
increment_version_twice(vers) ==
    unwrap_or_default(checked_add(vers, AsU64(2 * INCREMENT_ARG)))

\* A version step that stays at u64::MAX (saturating_add).
increment_version_saturating(vers) ==
    LET r == AddFrom(vers, AsU64(INCREMENT_ARG), 4, 0)
    IN  IF r.carry = 0 THEN r.limbs ELSE U64_MAX

\* The closure of absorb_first:
\* |vers| vers.checked_add(INCREMENT_ARG).unwrap_or_default().
increment_version(vers) == unwrap_or_default(checked_add(vers, AsU64(INCREMENT_ARG)))

\* The version an operation logged at vers is applied at.
VersionAfter(vers) == AsNat(increment_version(AsU64(vers)))

\* An application that builds the batch and never writes it.
absorb_first_nowrite(d, op) == d

\* An application that writes each pair as a value set of its own, at
\* successive versions.
RECURSIVE ApplyEach(_, _, _)
ApplyEach(d, kvs, vers) ==
    IF kvs = <<>> THEN d
    ELSE ApplyEach(write_node_batch(d, put_value_set(d, <<Head(kvs)>>, vers).node_batch).db,
                   Tail(kvs), vers + 1)

absorb_first_each(d, op) == ApplyEach(d, op.kvs, VersionAfter(op.vers))

\* An application that writes the batch whatever put_value_set returned.
absorb_first_write_anyway(d, op) ==
    write_node_batch(d, put_value_set(d, op.kvs, VersionAfter(op.vers)).node_batch).db

\* Absorb::absorb_first on a tree whose backend is d: the backend after it.
\* Errors of put_value_set and write_node_batch are logged and dropped.
absorb_first(d, op) ==
    Strict(put_value_set(d, op.kvs, VersionAfter(op.vers)),
           LAMBDA r : IF r.ok THEN write_node_batch(d, r.node_batch).db ELSE d)

\* A second application that forgets the keys of the operation.
absorb_second_forget(d, op) ==
    [d EXCEPT !.value_history =
        [kh \in KeyHashes |->
            IF \E i \in DOMAIN op.kvs : op.kvs[i][1] = kh THEN <<>> ELSE @[kh]]]

\* Absorb::absorb_second is not overridden: left-right's default applies
\* absorb_first to the owned operation.
absorb_second(d, op) == absorb_first(d, op)

\* The error! events of absorb_first: the operation's tag and the call
\* that failed; none when both calls succeed.
absorb_first_errors(d, op) ==
    Strict(put_value_set(d, op.kvs, VersionAfter(op.vers)),
           LAMBDA r :
               IF ~r.ok THEN <<[tag |-> op.tag, failed |-> "put_value_set"]>>
               ELSE IF ~write_node_batch(d, r.node_batch).ok
                    THEN <<[tag |-> op.tag, failed |-> "write_node_batch"]>>
                    ELSE <<>>)

\* ------------------------------------------------------------ PebbleDB
\* The column family names in use.
ColumnFamilies == 1..NumColumnFamilies
\* The values stored in the PebbleDB.
PebbleValues == 1..NumPebbleValues

\* ColumnFamily::default(): the family named DEFAULT_COLUMN_FAMILY.
DefaultColumnFamily == 1

\* The 8-byte values a column key takes in this model: fewer than the
\* names, as the 2^64 values are fewer than the strings (the names
\* "fcbe2a91db2bb6bf" and "aa1025bf4af77e0c" hash to b1e72857da7b516f).
NumColumnKeys == 2

\* ColumnFamily::cf_key: the 64-bit FNV hash of the name, as 8 bytes.
cf_key(cf) == [fnv |-> cf % NumColumnKeys]

\* cf_key.append(&mut key): the 8 bytes of the column key, then the
\* serialized user key.
PrefixedKey(cf, k) == [prefix |-> cf_key(cf), key |-> serialize(k)]

\* PebbleDB::default(): an empty storage map and no column family.
EmptyPebble == [inner |-> <<>>, cfs |-> <<>>]

\* The position of a key in an IndexMap, 0 when it is absent.
IndexOf(m, key) ==
    IF \E i \in DOMAIN m : m[i].key = key
    THEN CHOOSE i \in DOMAIN m : m[i].key = key
    ELSE 0

\* An insert that moves an existing entry to the end of the map.
index_insert_reorder(m, key, value) ==
    Append(SelectSeq(m, LAMBDA e : e.key # key), [key |-> key, value |-> value])

\* IndexMap::insert: the value of an existing key is replaced in place, a
\* new key is appended.
index_insert(m, key, value) ==
    IF IndexOf(m, key) # 0
    THEN [m EXCEPT ![IndexOf(m, key)].value = value]
    ELSE Append(m, [key |-> key, value |-> value])

\* Vec::contains.
vec_contains(v, x) == \E i \in DOMAIN v : v[i] = x

\* PebbleDB::cf_exists.
cf_exists(p, cf) == cf \in DOMAIN p.cfs

\* A new_cf that resets the key list of an existing family.
new_cf_reset(p, cf) ==
    [db |-> [p EXCEPT !.cfs = [c \in DOMAIN p.cfs \cup {cf} |->
                                   IF c = cf THEN <<>> ELSE p.cfs[c]]],
     ret |-> Ok(Unit)]

\* PebbleDB::new_cf: the database after it and the Result returned.
new_cf(p, cf) ==
    IF ~cf_exists(p, cf)
    THEN [db |-> [p EXCEPT !.cfs = [c \in DOMAIN p.cfs \cup {cf} |->
                                        IF c = cf THEN <<>> ELSE p.cfs[c]]],
          ret |-> Ok(Unit)]
    ELSE [db |-> p, ret |-> Ok(Unit)]

\* A column family update that does not create a missing family.
cfs_insert_existing(cfs, cf, key) ==
    IF cf \in DOMAIN cfs
    THEN [cfs EXCEPT ![cf] = IF vec_contains(@, key) THEN @ ELSE Append(@, key)]
    ELSE cfs

\* PebbleDB::insert, its update of the column family map: the key is
\* pushed to an existing family unless listed, a missing family is created
\* with the key.
cfs_insert(cfs, cf, key) ==
    [c \in DOMAIN cfs \cup {cf} |->
        IF c # cf THEN cfs[c]
        ELSE IF cf \in DOMAIN cfs
             THEN IF vec_contains(cfs[cf], key) THEN cfs[cf] ELSE Append(cfs[cf], key)
             ELSE <<key>>]

\* An insert that lists the key under every family that exists.
pebble_insert_everywhere(p, k, v, cf) ==
    LET key == PrefixedKey(cf, k)
        listed == cfs_insert(p.cfs, cf, key)
    IN  [db |-> [inner |-> index_insert(p.inner, key, serialize(v)),
                 cfs |-> [c \in DOMAIN listed |->
                             IF vec_contains(listed[c], key) THEN listed[c]
                             ELSE Append(listed[c], key)]],
         ret |-> Ok(Unit)]

\* PebbleDB::insert: the database after it and the Result returned.
pebble_insert(p, k, v, cf) ==
    LET key == PrefixedKey(cf, k)
    IN  [db |-> [inner |-> index_insert(p.inner, key, serialize(v)),
                 cfs |-> cfs_insert(p.cfs, cf, key)],
         ret |-> Ok(Unit)]

\* PebbleDB::cf_len.
cf_len(p, cf) == IF cf \in DOMAIN p.cfs THEN Some(Len(p.cfs[cf])) ELSE None

\* --------------------------------------------------------------- state
VARIABLES
    db,          \* the backend behind Arc<D>, shared by every tree handle
    copy,        \* the two left-right copies: each a tree handle
    rptr,        \* the copy the readers' pointer names (the other is w_handle)
    first,       \* WriteHandle.first: no publish has happened yet
    second,      \* WriteHandle.second: the next absorbing publish syncs w_handle
    oplog,       \* WriteHandle.oplog
    swap_index,  \* WriteHandle.swap_index
    last_epochs, \* WriteHandle.last_epochs: reader epochs read after the last swap
    wpc,         \* the writer's position
    wcall,       \* the call the writer is in
    pending,     \* the Operation built by insert / extend, before append
    widx,        \* the reader index of the wait / epoch-recording loops
    aidx,        \* the oplog index of the absorb loops
    calls,       \* the calls the writer has completed, in order
    epoch,       \* each ReadHandle's epoch counter
    rpc,         \* each reader's position: out, entering, in
    guard,       \* the copy a reader's ReadGuard points to (0: none)
    wrapper,     \* the JellyfishMerkleTreeWrapper a reader holds, if any
    gobs,        \* the last observation made under the current guard
    hobs,        \* the last observation made through the held wrapper
    wres,        \* the last call made on a JellyfishMerkleTreeWrapper, with its result
    errors,      \* the error! events emitted so far (tracing)
    wret,        \* what the last insert / extend / publish returned to its caller
    pebble,      \* a PebbleDB: its storage map `inner` and its column families `cfs`
    pres,        \* the last call made on the PebbleDB, with its result
    vcall        \* the last application of increment_version, with its result

vars == <<db, copy, rptr, first, second, oplog, swap_index, last_epochs, wpc,
          wcall, pending, widx, aidx, calls, epoch, rpc, guard, wrapper,
          gobs, hobs, wres, errors, wret, pebble, pres, vcall>>

wvars == <<rptr, first, second, oplog, swap_index, last_epochs, wpc, wcall,
           pending, widx, aidx, calls>>
rvars == <<epoch, rpc, guard, wrapper, gobs, hobs>>
evars == <<errors, wret>>
pvars == <<pebble, pres>>

\* JellyfishMerkleTree::new(db): a tree is a handle to the backend.
Tree == [reader |-> "db"]
\* JellyfishMerkleTree::default(): a tree over a backend of its own.
DefaultTree == [reader |-> "default"]
\* The backend a tree handle reads and writes.
Deref(t) == IF t = Tree THEN db ELSE EmptyDb
Other(c) == 3 - c

\* What a reader reads off a tree: version(), len(), root_latest(),
\* value_history().
ObsOf(d) ==
    [version |-> version(d),
     len |-> len(d),
     root_latest |-> root_hash(d, version(d)),
     value_history |-> value_history(d)]

Obs(t) == ObsOf(Deref(t))

NoCall == [op |-> "none", kvs |-> <<>>]

\* The number of the insert / extend / publish call in progress, or of the
\* last one when the writer is idle.
TrieCall ==
    Len(SelectSeq(calls, LAMBDA c : c.op \in {"insert", "extend", "publish"}))
        + (IF wpc = "idle" THEN 0 ELSE 1)

\* The events with the call they were emitted in.
Emitted(events) == [i \in DOMAIN events |-> [call |-> TrieCall, event |-> events[i]]]

\* No wrapper call has been made.
NoResult == [op |-> "none", key |-> 0, value |-> None, before |-> EmptyDb,
             vers |-> 0, ret |-> Ok(Unit)]

\* No call has been made on the PebbleDB.
NoPebbleCall == [op |-> "none", cf |-> 0, key |-> 0, value |-> 0,
                 before |-> EmptyPebble, ret |-> Ok(Unit)]

\* increment_version has not been applied.
NoVersionCall == [op |-> "none", logged |-> U64Default, effective |-> U64Default]

\* left_right::new_from_empty(JellyfishMerkleTree::new(db)), and
\* PebbleDB::default().
Init ==
    /\ db = EmptyDb
    /\ copy = [c \in 1..2 |-> Tree]
    /\ rptr = 1
    /\ first = TRUE
    /\ second = TRUE
    /\ oplog = <<>>
    /\ swap_index = 0
    /\ last_epochs = [r \in Readers |-> 0]
    /\ wpc = "idle"
    /\ wcall = NoCall
    /\ pending = None
    /\ widx = 1
    /\ aidx = 1
    /\ calls = <<>>
    /\ epoch = [r \in Readers |-> 0]
    /\ rpc = [r \in Readers |-> "out"]
    /\ guard = [r \in Readers |-> 0]
    /\ wrapper = [r \in Readers |-> None]
    /\ gobs = [r \in Readers |-> None]
    /\ hobs = [r \in Readers |-> None]
    /\ wres = NoResult
    /\ errors = <<>>
    /\ wret = Unit
    /\ pebble = EmptyPebble
    /\ pres = NoPebbleCall
    /\ vcall = NoVersionCall

\* ------------------------------------------------------------- writer
\* The value sets extend() can be given: 1..MaxExtend pairs.
Pairs == Keys \X ({None} \cup {Some(v) : v \in UserValues})
ExtendInputs == UNION {[1..n -> Pairs] : n \in 1..MaxExtend}

\* The (KeyHash, Option<OwnedValue>) pair insert / extend map a pair to.
mapped(kv) ==
    <<KeyHashWith(serialize(kv[1])),
      IF is_some(kv[2]) THEN Some(serialize(unwrap(kv[2]))) ELSE None>>

\* LeftRightTrie::version through handle(): the visible copy's version.
trie_version == version(Deref(copy[rptr]))

\* LeftRightTrie::insert, up to its append: the Operation is built with
\* the version read now.
CallInsert(k, v) ==
    /\ wpc = "idle"
    /\ Len(calls) < MaxCalls
    /\ pending' = Some(OpAdd(mapped(<<k, Some(v)>>), trie_version))
    /\ wcall' = [op |-> "insert", kvs |-> <<<<k, Some(v)>>>>]
    /\ wpc' = "append"
    /\ UNCHANGED <<db, copy, rptr, first, second, oplog, swap_index,
                   last_epochs, widx, aidx, calls, rvars, pvars, vcall, wres, evars>>

\* LeftRightTrie::extend, up to its append.
CallExtend(kvs) ==
    /\ wpc = "idle"
    /\ Len(calls) < MaxCalls
    /\ pending' = Some(OpExtend([i \in DOMAIN kvs |-> mapped(kvs[i])], trie_version))
    /\ wcall' = [op |-> "extend", kvs |-> kvs]
    /\ wpc' = "append"
    /\ UNCHANGED <<db, copy, rptr, first, second, oplog, swap_index,
                   last_epochs, widx, aidx, calls, rvars, pvars, vcall, wres, evars>>

\* LeftRightTrie::publish called by the client.
CallPublish ==
    /\ wpc = "idle"
    /\ Len(calls) < MaxCalls
    /\ wcall' = [op |-> "publish", kvs |-> <<>>]
    /\ wpc' = "wait"
    /\ widx' = 1
    /\ UNCHANGED <<db, copy, rptr, first, second, oplog, swap_index,
                   last_epochs, pending, aidx, calls, rvars, pvars, vcall, wres, evars>>

\* An insert / extend that appends and returns without publishing.
append_only ==
    /\ wpc = "append"
    /\ IF first
       THEN /\ db' = absorb_second(Deref(copy[Other(rptr)]), unwrap(pending))
            /\ errors' = errors \o Emitted(absorb_first_errors(
                              Deref(copy[Other(rptr)]), unwrap(pending)))
            /\ oplog' = oplog
       ELSE /\ oplog' = Append(oplog, unwrap(pending))
            /\ UNCHANGED <<db, errors>>
    /\ pending' = None
    /\ wpc' = "idle"
    /\ calls' = Append(calls, wcall)
    /\ wcall' = NoCall
    /\ wret' = Unit
    /\ UNCHANGED <<copy, rptr, first, second, swap_index, last_epochs, widx,
                   aidx, rvars, pvars, vcall, wres>>

\* WriteHandle::append: before the first publish the operation is applied
\* to w_handle at once (absorb_second); afterwards it is logged.
append ==
    /\ wpc = "append"
    /\ IF first
       THEN /\ db' = absorb_second(Deref(copy[Other(rptr)]), unwrap(pending))
            /\ errors' = errors \o Emitted(absorb_first_errors(
                              Deref(copy[Other(rptr)]), unwrap(pending)))
            /\ oplog' = oplog
       ELSE /\ oplog' = Append(oplog, unwrap(pending))
            /\ UNCHANGED <<db, errors>>
    /\ pending' = None
    /\ wpc' = "wait"
    /\ widx' = 1
    /\ UNCHANGED <<copy, rptr, first, second, swap_index, last_epochs, wcall,
                   aidx, calls, rvars, pvars, vcall, wres, wret>>

\* A wait that asks every reader's epoch to have changed.
Departed_changed(r) == epoch[r] # last_epochs[r]

\* WriteHandle::wait, one reader per step: a reader whose epoch was even
\* after the last swap, or has changed since, has left the old copy.
Departed(r) == last_epochs[r] % 2 = 0 \/ epoch[r] # last_epochs[r]

WaitScan ==
    /\ wpc = "wait"
    /\ Departed(widx)
    /\ IF widx < NumReaders
       THEN /\ widx' = widx + 1
            /\ UNCHANGED <<wpc, first>>
       ELSE /\ widx' = 1
            /\ wpc' = IF first THEN "swap" ELSE "sync"
            /\ first' = FALSE
    /\ UNCHANGED <<db, copy, rptr, second, oplog, swap_index, last_epochs,
                   wcall, pending, aidx, calls, rvars, pvars, vcall, wres, evars>>

\* publish, not the first: Absorb::sync_with on the second publish.
PublishSync ==
    /\ wpc = "sync"
    /\ IF second
       THEN copy' = [copy EXCEPT ![Other(rptr)] = copy[rptr]]
       ELSE copy' = copy
    /\ second' = FALSE
    /\ aidx' = 1
    /\ wpc' = "absorb"
    /\ UNCHANGED <<db, rptr, first, oplog, swap_index, last_epochs, wcall,
                   pending, widx, calls, rvars, pvars, vcall, wres, evars>>

\* publish: one operation of the log is applied to w_handle; the first
\* swap_index operations are the replay of the previous publish.
PublishAbsorb ==
    /\ wpc = "absorb"
    /\ aidx <= Len(oplog)
    /\ db' = IF aidx <= swap_index
             THEN absorb_second(Deref(copy[Other(rptr)]), oplog[aidx])
             ELSE absorb_first(Deref(copy[Other(rptr)]), oplog[aidx])
    /\ errors' = errors \o Emitted(absorb_first_errors(
                      Deref(copy[Other(rptr)]), oplog[aidx]))
    /\ aidx' = aidx + 1
    /\ UNCHANGED <<copy, rptr, first, second, oplog, swap_index, last_epochs,
                   wpc, wcall, pending, widx, calls, rvars, pvars, vcall, wres, wret>>

\* publish: the replayed operations leave the log, the pointer is swapped.
PublishSwap ==
    /\ \/ wpc = "swap" /\ UNCHANGED <<oplog, swap_index>>
       \/ /\ wpc = "absorb"
          /\ aidx > Len(oplog)
          /\ oplog' = SubSeq(oplog, swap_index + 1, Len(oplog))
          /\ swap_index' = Len(oplog) - swap_index
    /\ rptr' = Other(rptr)
    /\ wpc' = "epochs"
    /\ widx' = 1
    /\ UNCHANGED <<db, copy, first, second, last_epochs, wcall, pending, aidx,
                   calls, rvars, pvars, vcall, wres, evars>>

\* publish: the readers' epochs are read after the swap; the call returns.
RecordEpoch ==
    /\ wpc = "epochs"
    /\ last_epochs' = [last_epochs EXCEPT ![widx] = epoch[widx]]
    /\ IF widx < NumReaders
       THEN /\ widx' = widx + 1
            /\ UNCHANGED <<wpc, wcall, calls, wret>>
       ELSE /\ widx' = 1
            /\ wpc' = "idle"
            /\ calls' = Append(calls, wcall)
            /\ wcall' = NoCall
            /\ wret' = Unit
    /\ UNCHANGED <<db, copy, rptr, first, second, oplog, swap_index, pending,
                   aidx, rvars, pvars, vcall, wres, errors>>

\* ------------------------------------------------------------ readers
\* ReadHandle::enter: the epoch is incremented, then the pointer is read.
ReaderEnter(r) ==
    /\ rpc[r] = "out"
    /\ epoch[r] < 2 * MaxEnters
    /\ epoch' = [epoch EXCEPT ![r] = @ + 1]
    /\ rpc' = [rpc EXCEPT ![r] = "entering"]
    /\ UNCHANGED <<db, copy, wvars, pvars, vcall, wres, evars, guard, wrapper, gobs, hobs>>

\* A pointer read that waits for the writer to finish its publish.
ReaderLoad_locked(r) ==
    /\ rpc[r] = "entering"
    /\ wpc \notin {"sync", "absorb", "swap"}
    /\ guard' = [guard EXCEPT ![r] = rptr]
    /\ rpc' = [rpc EXCEPT ![r] = "in"]
    /\ UNCHANGED <<db, copy, wvars, pvars, vcall, wres, evars, epoch, wrapper, gobs, hobs>>

ReaderLoad(r) ==
    /\ rpc[r] = "entering"
    /\ guard' = [guard EXCEPT ![r] = rptr]
    /\ rpc' = [rpc EXCEPT ![r] = "in"]
    /\ UNCHANGED <<db, copy, wvars, pvars, vcall, wres, evars, epoch, wrapper, gobs, hobs>>

\* A read through the guard: version, len, root_latest, value_history.
ReaderRead(r) ==
    /\ rpc[r] = "in"
    /\ gobs' = [gobs EXCEPT ![r] = Some(Obs(copy[guard[r]]))]
    /\ UNCHANGED <<db, copy, wvars, pvars, vcall, wres, evars, epoch, rpc, guard, wrapper, hobs>>

\* handle(): JellyfishMerkleTreeWrapper::new(guard.clone()).
ReaderClone(r) ==
    /\ rpc[r] = "in"
    /\ wrapper' = [wrapper EXCEPT ![r] = Some(copy[guard[r]])]
    /\ hobs' = [hobs EXCEPT ![r] = None]
    /\ UNCHANGED <<db, copy, wvars, pvars, vcall, wres, evars, epoch, rpc, guard, gobs>>

\* A handle() whose wrapper keeps the guard: the epoch is not incremented
\* when the call returns holding a wrapper.
ReaderLeave_keeps_guard(r) ==
    /\ rpc[r] = "in"
    /\ epoch' = [epoch EXCEPT ![r] = IF wrapper[r] # None THEN @ ELSE @ + 1]
    /\ guard' = [guard EXCEPT ![r] = 0]
    /\ rpc' = [rpc EXCEPT ![r] = "out"]
    /\ gobs' = [gobs EXCEPT ![r] = None]
    /\ UNCHANGED <<db, copy, wvars, pvars, vcall, wres, evars, wrapper, hobs>>

\* Drop of the ReadGuard: the epoch is incremented again.
ReaderLeave(r) ==
    /\ rpc[r] = "in"
    /\ epoch' = [epoch EXCEPT ![r] = @ + 1]
    /\ guard' = [guard EXCEPT ![r] = 0]
    /\ rpc' = [rpc EXCEPT ![r] = "out"]
    /\ gobs' = [gobs EXCEPT ![r] = None]
    /\ UNCHANGED <<db, copy, wvars, pvars, vcall, wres, evars, wrapper, hobs>>

\* A read through the held wrapper, with no guard.
ReaderUse(r) ==
    /\ wrapper[r] # None
    /\ hobs' = [hobs EXCEPT ![r] = Some(Obs(unwrap(wrapper[r])))]
    /\ UNCHANGED <<db, copy, wvars, pvars, vcall, wres, evars, epoch, rpc, guard, wrapper, gobs>>

\* The calls of the client that owns the trie.
Calls ==
    \/ \E k \in Keys, v \in UserValues : CallInsert(k, v)
    \/ CallPublish

\* The steps inside insert / extend / publish.
WriterStep ==
    \/ append
    \/ WaitScan
    \/ PublishSync
    \/ PublishAbsorb
    \/ PublishSwap
    \/ RecordEpoch

\* A reader thread that reads under its guard.
GuardReader(r) ==
    \/ ReaderEnter(r)
    \/ ReaderLoad(r)
    \/ ReaderRead(r)
    \/ ReaderLeave(r)

\* A reader thread that takes wrappers with handle() and reads through them.
HandleReader(r) ==
    \/ ReaderEnter(r)
    \/ ReaderLoad(r)
    \/ ReaderClone(r)
    \/ ReaderLeave(r)
    \/ ReaderUse(r)

\* The trie the client owns, as the copies and the pointer of its handles.
Self == [copy |-> copy, rptr |-> rptr]

\* A trie built over a default tree instead of the given one.
from_tree_default(inner) == [copy |-> <<DefaultTree, DefaultTree>>, rptr |-> 1]

\* From<JellyfishMerkleTree>: left_right::new_from_empty(other), both copies
\* being clones of the given tree.
from_tree(inner) == [copy |-> <<inner, inner>>, rptr |-> 1]

\* SubClone::from_clone(inner).
from_clone(inner) == from_tree(inner)

\* Clone::clone: from(self.handle().inner()), the visible copy's tree.
clone(trie) == from_tree(trie.copy[trie.rptr])

\* LeftRightTrie::root_latest: the root at the visible copy's version.
root_latest(trie) ==
    LET d == Deref(trie.copy[trie.rptr])
    IN  root_hash(d, version(d))

\* PartialEq::eq.
eq(trie, other) == root_latest(trie) = root_latest(other)

\* The writer and reader threads that read under guards.
Next == Calls \/ WriterStep \/ \E r \in Readers : GuardReader(r)

Spec == Init /\ [][Next]_vars

\* The writer and reader threads that read through wrappers.
NextHandle == Calls \/ WriterStep \/ \E r \in 1..NumHandleThreads : HandleReader(r)

SpecHandle == Init /\ [][NextHandle]_vars

\* The writer alone, with extend.
NextSeq ==
    \/ Calls
    \/ \E kvs \in ExtendInputs : CallExtend(kvs)
    \/ WriterStep

SpecSeq == Init /\ [][NextSeq]_vars

\* ------------------------------------------------- wrapper as a client
\* The versions a client of the wrapper reads at.
ReadVersions == 0..MaxCalls

\* wrapper.insert(k, v) on a wrapper of the tree, between the trie's calls.
WrapperInsert(k, v) ==
    /\ wpc = "idle"
    /\ Len(calls) < MaxCalls
    /\ LET r == wrapper_insert(Deref(copy[rptr]), k, v)
       IN  /\ db' = r.db
           /\ wres' = [op |-> "insert", key |-> k, value |-> Some(v), before |-> db,
                       vers |-> version(r.db), ret |-> r.ret]
    /\ calls' = Append(calls, [op |-> "wrapper_insert", kvs |-> <<<<k, Some(v)>>>>])
    /\ UNCHANGED <<copy, rptr, first, second, oplog, swap_index, last_epochs,
                   wpc, wcall, pending, widx, aidx, rvars, pvars, vcall, evars>>

\* wrapper.remove(k).
WrapperRemove(k) ==
    /\ wpc = "idle"
    /\ Len(calls) < MaxCalls
    /\ LET r == wrapper_remove(Deref(copy[rptr]), k)
       IN  /\ db' = r.db
           /\ wres' = [op |-> "remove", key |-> k, value |-> None, before |-> db,
                       vers |-> version(r.db), ret |-> r.ret]
    /\ calls' = Append(calls, [op |-> "wrapper_remove", kvs |-> <<<<k, None>>>>])
    /\ UNCHANGED <<copy, rptr, first, second, oplog, swap_index, last_epochs,
                   wpc, wcall, pending, widx, aidx, rvars, pvars, vcall, evars>>

\* wrapper.get(&k, vers).
WrapperGet(k, vers) ==
    /\ wpc = "idle"
    /\ wres' = [op |-> "get", key |-> k, value |-> None, before |-> db,
                vers |-> vers, ret |-> wrapper_get(Deref(copy[rptr]), k, vers)]
    /\ UNCHANGED <<db, copy, wvars, pvars, vcall, rvars, evars>>

\* The keys proofs are asked for: key 0 is never inserted.
ProofKeys == 0..NumKeys

\* wrapper.get_proof(&k, vers) at a committed version, then
\* wrapper.verify_proof of that proof against root_hash(vers).
WrapperVerifyProof(k, vers) ==
    /\ wpc = "idle"
    /\ vers \in 1..version(Deref(copy[rptr]))
    /\ LET d == Deref(copy[rptr])
           p == wrapper_get_proof(d, k, vers)
       IN  wres' = [op |-> "verify_proof", key |-> k, value |-> None, before |-> db,
                    vers |-> vers,
                    ret |-> IF ~p.ok THEN p
                            ELSE wrapper_verify_proof(d, KeyHashWith(serialize(k)), vers,
                                                      root_hash(d, vers), unwrap(p.value))]
    /\ UNCHANGED <<db, copy, wvars, pvars, vcall, rvars, evars>>

\* A client that owns one wrapper and nothing else.
NextWrapper ==
    \/ \E k \in Keys, v \in UserValues : WrapperInsert(k, v)
    \/ \E k \in Keys : WrapperRemove(k)
    \/ \E k \in Keys, vers \in ReadVersions : WrapperGet(k, vers)
    \/ \E k \in ProofKeys, vers \in ReadVersions : WrapperVerifyProof(k, vers)

SpecWrapper == Init /\ [][NextWrapper]_vars

\* The writer's calls, with wrapper inserts and removes between them.
NextMixed ==
    \/ NextSeq
    \/ \E k \in Keys, v \in UserValues : WrapperInsert(k, v)
    \/ \E k \in Keys : WrapperRemove(k)

SpecMixed == Init /\ [][NextMixed]_vars

\* The backend's TreeReader starts, or stops, failing the reads of nodes.
BackendFault ==
    /\ ~db.node_reads_fail => Len(errors) < MaxFaults
    /\ db' = [db EXCEPT !.node_reads_fail = ~@]
    /\ UNCHANGED <<copy, wvars, rvars, pvars, vcall, wres, evars>>

\* The writer alone, over a backend whose reads fail at times.
NextFault ==
    \/ NextSeq
    \/ BackendFault

SpecFault == Init /\ [][NextFault]_vars

\* A client that owns one wrapper, over a backend whose reads fail at times.
NextWrapperFault ==
    \/ \E k \in Keys, v \in UserValues : WrapperInsert(k, v)
    \/ \E k \in Keys : WrapperRemove(k)
    \/ \E k \in Keys, vers \in ReadVersions : WrapperGet(k, vers)
    \/ BackendFault

SpecWrapperFault == Init /\ [][NextWrapperFault]_vars

\* wrapper.insert(k, v) by a thread that holds a wrapper from handle(),
\* whatever the writer is doing.
HandleInsert(k, v) ==
    /\ Len(calls) < MaxCalls
    /\ LET r == wrapper_insert(Deref(copy[rptr]), k, v)
       IN  /\ db' = r.db
           /\ wres' = [op |-> "insert", key |-> k, value |-> Some(v), before |-> db,
                       vers |-> version(r.db), ret |-> r.ret]
    /\ calls' = Append(calls, [op |-> "wrapper_insert", kvs |-> <<<<k, Some(v)>>>>])
    /\ UNCHANGED <<copy, rptr, first, second, oplog, swap_index, last_epochs,
                   wpc, wcall, pending, widx, aidx, rvars, pvars, vcall, evars>>

\* The writer, and a thread that inserts through a wrapper.
NextRace ==
    \/ NextSeq
    \/ \E k \in Keys, v \in UserValues : HandleInsert(k, v)

SpecRace == Init /\ [][NextRace]_vars

\* ------------------------------------------------- PebbleDB's client
\* db.insert((k, v), &cf).
PebbleInsert(k, v, cf) ==
    /\ LET r == pebble_insert(pebble, k, v, cf)
       IN  /\ pebble' = r.db
           /\ pres' = [op |-> "insert", cf |-> cf, key |-> k, value |-> v,
                       before |-> pebble, ret |-> r.ret]
    /\ UNCHANGED <<db, copy, wvars, rvars, wres, evars, vcall>>

\* db.new_cf(&cf).
PebbleNewCf(cf) ==
    /\ LET r == new_cf(pebble, cf)
       IN  /\ pebble' = r.db
           /\ pres' = [op |-> "new_cf", cf |-> cf, key |-> 0, value |-> 0,
                       before |-> pebble, ret |-> r.ret]
    /\ UNCHANGED <<db, copy, wvars, rvars, wres, evars, vcall>>

\* A client that owns a PebbleDB.
NextPebble ==
    \/ \E k \in Keys, v \in PebbleValues, cf \in ColumnFamilies : PebbleInsert(k, v, cf)
    \/ \E cf \in ColumnFamilies : PebbleNewCf(cf)

SpecPebble == Init /\ [][NextPebble]_vars

\* ------------------------------------- increment_version on u64 values
\* The limbs of the logged versions tried: the least, the greatest and
\* their neighbours, so that a carry runs through any number of limbs.
EdgeLimbs == {0, 1, LimbBase - 2, LimbBase - 1}
LoggedVersions == {<<a, b, c, d>> : a \in EdgeLimbs, b \in EdgeLimbs,
                                    c \in EdgeLimbs, d \in EdgeLimbs}

\* absorb_first of an operation logged at vers, up to its put_value_set:
\* the effective version is computed.
IncrementVersion(vers) ==
    /\ vcall' = [op |-> "increment_version", logged |-> vers,
                 effective |-> increment_version(vers)]
    /\ UNCHANGED <<db, copy, wvars, rvars, wres, evars, pvars>>

\* Operations logged at any version are applied.
NextVersion == \E vers \in LoggedVersions : IncrementVersion(vers)

SpecVersion == Init /\ [][NextVersion]_vars

\* The scheduler runs the writer thread, and a reader that has entered
\* loads the pointer and later drops its guard.
FairSpec ==
    /\ Spec
    /\ WF_vars(WriterStep)
    /\ \A r \in Readers : WF_vars(ReaderLoad(r) \/ ReaderLeave(r))

\* ============================================================== claims
IsMutation(c) == c.op \in {"insert", "extend"}

\* The insert / extend calls whose publish has swapped the pointer.
PublishedOps ==
    Cardinality({i \in DOMAIN calls : IsMutation(calls[i])})
        + (IF wpc = "epochs" /\ IsMutation(wcall) THEN 1 ELSE 0)

\* C1: publish atomicity.  All the observations a reader makes while it
\* holds one guard agree: it sees all of a publish or none of it for as
\* long as it holds the guard.
C1_PublishAtomicity ==
    [][\A r \in Readers :
        (gobs[r] # None /\ gobs'[r] # None) => gobs'[r] = gobs[r]]_vars

\* C2 (as claimed): insert / extend only append; as long as publish() has
\* not been called, readers of the visible copy observe the empty tree.
C2_OnlyAppend ==
    ((\A i \in DOMAIN calls : calls[i].op # "publish") /\ wcall.op # "publish")
        => Obs(copy[rptr]) = ObsOf(EmptyDb)

\* C2 (amended): insert / extend append the Operation and publish it before
\* they return: between calls nothing is pending and every logged operation
\* has been published (the log holds only what the next publish replays).
C2_InsertPublishes ==
    wpc = "idle" => (pending = None /\ swap_index = Len(oplog))

C2_Witness ==
    /\ wpc = "idle"
    /\ Len(calls) >= 2
    /\ IsMutation(Last(calls))
    /\ Len(oplog) = 1

\* C3: when insert(K, V) has returned, with no publish() call, a handle
\* from handle() returns V for get(K, version()).
C3_InsertVisibleOnReturn ==
    (wpc = "idle" /\ calls # <<>> /\ Last(calls).op = "insert")
        => LET kv == Last(calls).kvs[1]
           IN  wrapper_get(Deref(copy[rptr]), kv[1], trie_version) = Ok(unwrap(kv[2]))

C3_Witness ==
    /\ wpc = "idle"
    /\ Len(calls) >= 2
    /\ Last(calls).op = "insert"
    /\ \A i \in DOMAIN calls : calls[i].op # "publish"

\* The script of should_be_read_concurrently: n inserts of n distinct keys
\* on a fresh trie, then publish().
InsertsThenPublish(n) ==
    /\ wpc = "idle"
    /\ n >= 1
    /\ Len(calls) = n + 1
    /\ calls[n + 1].op = "publish"
    /\ \A i \in 1..n : calls[i].op = "insert"
    /\ \A i, j \in 1..n : i # j => calls[i].kvs[1][1] # calls[j].kvs[1][1]

\* C4: after n inserts of n distinct keys and publish(): version() = n,
\* len() = n, value_history has n entries, the iteration at version n
\* yields n items, and a handle on either copy reads every inserted value
\* back at version n.
C4_InsertsThenPublish ==
    \A n \in 1..MaxCalls :
        InsertsThenPublish(n) =>
            /\ trie_version = n
            /\ len(Deref(copy[rptr])) = n
            /\ Cardinality(DOMAIN value_history(Deref(copy[rptr]))) = n
            /\ Cardinality(iter(Deref(copy[rptr]), n)) = n
            /\ \A i \in 1..n, c \in 1..2 :
                wrapper_get(Deref(copy[c]), calls[i].kvs[1][1], n)
                    = Ok(unwrap(calls[i].kvs[1][2]))

C4_Witness == InsertsThenPublish(2)

\* C5: epoch ordering.  A reader holding a guard on the visible copy sees
\* the operations published so far and nothing of the publish in progress:
\* the version it reads is the number of published insert / extend calls.
C5_EpochOrdering ==
    \A r \in Readers :
        (rpc[r] = "in" /\ guard[r] = rptr)
            => Obs(copy[guard[r]]).version = PublishedOps

\* C6: a held handle pins a snapshot.  All the observations made through
\* one JellyfishMerkleTreeWrapper agree, whatever the writer does meanwhile.
C6_HandlePinsSnapshot ==
    [][\A r \in Readers :
        (hobs[r] # None /\ hobs'[r] # None) => hobs'[r] = hobs[r]]_vars

\* C7: the version a reader gets from a freshly entered handle never
\* decreases, whatever step the writer takes.
C7_VersionMonotone == [][trie_version' >= trie_version]_vars

C7_Witness ==
    /\ wpc = "idle"
    /\ trie_version >= 2
    /\ \E i \in DOMAIN calls : calls[i].op = "extend"
    /\ \E i \in DOMAIN calls : calls[i].op = "insert"

\* C8: reader isolation.  Two readers that hold guards on the same copy at
\* the same time have observed the same root_latest, len and value_history.
C8_ReaderIsolation ==
    \A r1, r2 \in Readers :
        (/\ rpc[r1] = "in" /\ rpc[r2] = "in"
         /\ guard[r1] = guard[r2]
         /\ gobs[r1] # None /\ gobs[r2] # None)
            => gobs[r1] = gobs[r2]

\* Every operation kept in the log is readable through the visible copy.
LoggedVisible ==
    \A i \in DOMAIN oplog :
        LET vers == VersionAfter(oplog[i].vers)
            batch == put_value_set(db, oplog[i].kvs, vers).node_batch
        IN  \A kh \in DOMAIN batch.values :
                get(Deref(copy[rptr]), kh, vers) = batch.values[kh]

\* C9: publish does not deadlock.  When every reader that has entered drops
\* its guard, a publish that waits completes, with the logged operations
\* visible.
C9_PublishCompletes == (wpc = "wait") ~> (wpc = "idle" /\ LoggedVisible)

C9_Witness ==
    /\ wpc = "wait"
    /\ ~Departed(widx)
    /\ oplog # <<>>

ResKey == KeyHashWith(serialize(wres.key))

\* C11: wrapper round trip at a version.  After wrapper.insert(K, V) has
\* returned Ok, producing version v, get(K, v) returns V and
\* contains(K, v) returns true.
C11_WrapperRoundTrip ==
    (wres.op = "insert" /\ wres.ret.ok)
        => /\ wrapper_get(db, wres.key, wres.vers) = Ok(unwrap(wres.value))
           /\ wrapper_contains(db, wres.key, wres.vers) = Ok(TRUE)

\* An insert of a key that had been inserted and removed before.
C11_Witness ==
    /\ wres.op = "insert" /\ wres.ret.ok
    /\ Len(wres.before.value_history[ResKey]) = 2
    /\ ~contains(wres.before, ResKey, version(wres.before))

\* C12: removal visibility.  After wrapper.remove(K) has returned Ok,
\* producing version v, contains(K, v) is false and contains(K, v - 1) is
\* what contains(K, latest version) was before the removal.
C12_RemovalVisibility ==
    (wres.op = "remove" /\ wres.ret.ok)
        => /\ wrapper_contains(db, wres.key, wres.vers) = Ok(FALSE)
           /\ wrapper_contains(db, wres.key, wres.vers - 1)
                = wrapper_contains(wres.before, wres.key, version(wres.before))

\* A removal of a key that was contained, at a version above 1.
C12_Witness ==
    /\ wres.op = "remove" /\ wres.ret.ok
    /\ wres.vers >= 2
    /\ contains(wres.before, ResKey, version(wres.before))

\* C13: every successful wrapper insert and remove increases version() by
\* exactly 1: after k successful calls on a fresh tree version() = k.
C13_VersionStepsByOne ==
    /\ (wres.op \in {"insert", "remove"} /\ wres.ret.ok)
          => wres.vers = version(wres.before) + 1
    /\ version(db) = Len(calls)

\* insert, then remove of the same key: version 2.
C13_Witness ==
    /\ Len(calls) = 2
    /\ calls[1].op = "wrapper_insert"
    /\ calls[2].op = "wrapper_remove"
    /\ calls[1].kvs[1][1] = calls[2].kvs[1][1]
    /\ version(db) = 2

\* C14: wrapper.remove(K) returns true if and only if contains(K, v) is
\* false once the removal has been applied at v = version() + 1.
C14_RemoveReturn ==
    (wres.op = "remove" /\ wres.ret.ok)
        => (unwrap(wres.ret.value)
              <=> ~contains(db, ResKey, version(wres.before) + 1))

\* A removal of a contained key has returned.
C14_Witness ==
    /\ wres.op = "remove" /\ wres.ret.ok
    /\ contains(wres.before, ResKey, version(wres.before))
    /\ unwrap(wres.ret.value)

C16_GetMissingNotFound ==
    (wres.op = "get" /\ ~contains(wres.before, ResKey, wres.vers))
        => wres.ret = Err("NotFound")

\* C16 (amended): get(K, v) of a key with no Some value at v fails with the
\* Other error kind, with the message "received none value from inner trie".
C16_GetMissingOther ==
    (wres.op = "get" /\ ~contains(wres.before, ResKey, wres.vers))
        => wres.ret = Err("Other: received none value from inner trie")

\* A get of a removed key, at the version of the removal.
C16_Witness ==
    /\ wres.op = "get"
    /\ Len(db.value_history[ResKey]) >= 2
    /\ wres.vers = Last(db.value_history[ResKey])[1]
    /\ ~contains(db, ResKey, wres.vers)

\* C17: history monotonicity.  After any sequence of wrapper inserts and
\* removes and trie inserts, extends and publishes, the replay of the log
\* included, the versions of every KeyHash's value history are strictly
\* increasing.
C17_HistoryStrictlyIncreasing ==
    \A kh \in KeyHashes :
        LET h == db.value_history[kh]
        IN  \A i, j \in 1..Len(h) : i < j => h[i][1] < h[j][1]

\* A publish has replayed an operation, and a key has two entries.
C17_Witness ==
    /\ wpc = "absorb"
    /\ swap_index >= 1
    /\ aidx > swap_index
    /\ \E kh \in KeyHashes : Len(db.value_history[kh]) >= 2

\* The KeyHashes whose most recent history entry is Some.
LiveKeys == {kh \in KeyHashes :
                /\ Len(db.value_history[kh]) > 0
                /\ is_some(Last(db.value_history[kh])[2])}

C19_VersionNotMonotone ==
    [][(/\ wpc = "absorb"
        /\ aidx <= Len(oplog)
        /\ VersionAfter(oplog[aidx].vers) <= version(Deref(copy[Other(rptr)])))
          => /\ ~put_value_set(Deref(copy[Other(rptr)]), oplog[aidx].kvs,
                               VersionAfter(oplog[aidx].vers)).ok
             /\ db' = db]_vars

\* The insert / extend calls made so far, the one in progress included.
MutationCalls ==
    SelectSeq(calls \o (IF wpc # "idle" THEN <<wcall>> ELSE <<>>), IsMutation)

\* The KeyHashes that have an entry at version vers.
KeysAt(vers) ==
    {kh \in KeyHashes : vers \in VersionsOf(db.value_history[kh])}

\* The value set of a call: per KeyHash the value of its last pair.
ValueSetOf(c) ==
    LET ms == [i \in DOMAIN c.kvs |-> mapped(c.kvs[i])]
    IN  put_value_set(db, ms, 0).node_batch.values

IsError(ret) == ret # Unit

\* C21: backend failures are surfaced, never swallowed.  When insert,
\* extend or publish has returned and write_node_batch failed while an
\* operation of the log was applied during that call, the value returned
\* to the caller is an error.
C21_BackendFailureSurfaced ==
    wpc = "idle" =>
        \A i \in DOMAIN errors :
            (errors[i].call = TrieCall /\ errors[i].event.failed = "write_node_batch")
                => IsError(wret)

\* The application of op to the tree of backend d fails: put_value_set or
\* write_node_batch returns an error.
ApplyFails(d, op) == absorb_first_errors(d, op) # <<>>

\* C22: a value set whose application fails during publish is not
\* committed.  A publish step that applies an operation of the log changes
\* the tree state only if put_value_set and write_node_batch both succeed.
C22_FailedNotCommitted ==
    [][(wpc = "absorb" /\ aidx <= Len(oplog) /\ aidx' = aidx + 1
            /\ ApplyFails(db, oplog[aidx]))
          => db' = db]_vars

\* The insert / extend calls that have returned.
CompletedMutations == SelectSeq(calls, IsMutation)

\* A fresh tree into which the value sets of the first n completed insert /
\* extend calls are put, one version each.
RECURSIVE Rebuilt(_)
Rebuilt(n) ==
    IF n = 0 THEN EmptyDb
    ELSE LET d == Rebuilt(n - 1)
             c == CompletedMutations[n]
             r == put_value_set(d, [i \in DOMAIN c.kvs |-> mapped(c.kvs[i])],
                                version(d) + 1)
         IN  write_node_batch(d, r.node_batch).db

\* C23: root determinism.  A tree built from the same sequence of value
\* sets as the trie has, at every intermediate version, the root hash the
\* trie has at that version, and so has the tree built from the value sets
\* up to that version only.
C23_RootDeterminism ==
    \A v \in 0..Len(CompletedMutations) :
        /\ root_hash(db, v) = root_hash(Rebuilt(Len(CompletedMutations)), v)
        /\ root_hash(db, v) = root_hash(Rebuilt(v), v)

\* Three value sets, an extend among them, with three different roots, and
\* a publish that has replayed the log.
C23_Witness ==
    /\ wpc = "idle"
    /\ Len(CompletedMutations) = 3
    /\ \E i \in 1..3 : CompletedMutations[i].op = "extend"
    /\ swap_index > 0
    /\ Cardinality({root_hash(db, v) : v \in 0..3}) = 4

\* The key of the last wrapper call has never been inserted.
NeverInserted == ResKey \notin KeyHashes \/ Len(db.value_history[ResKey]) = 0

\* C24: proof soundness.  For every key, inserted or not, and every
\* committed version v, verify_proof(K, v, root_hash(v), get_proof(K, v))
\* succeeds; the proof of a never-inserted key is an exclusion proof: it
\* carries no leaf of that key.
C24_ProofSoundness ==
    wres.op = "verify_proof" =>
        /\ wres.ret = Ok(Unit)
        /\ NeverInserted =>
              LET proof == get_proof(db, ResKey, wres.vers)
              IN  proof.leaf = None \/ unwrap(proof.leaf).key # ResKey

\* The proof of the never-inserted key 0 in a tree of two leaves has been
\* verified: it ends at the leaf of another key and carries one sibling.
C24_Witness ==
    /\ wres.op = "verify_proof"
    /\ Cardinality(LeavesAt(db, wres.vers)) = 2
    /\ Len(get_proof(db, ResKey, wres.vers).siblings) = 1
    /\ wres.key = 0

\* C25: a trie built from a clone of the trie's visible tree, by
\* from_clone(trie.handle().inner()) or by Clone::clone, compares equal to
\* the original: both have the same root_latest().
C25_CloneEqual ==
    /\ eq(clone(Self), Self)
    /\ \A r \in Readers :
          wrapper[r] # None => eq(from_clone(unwrap(wrapper[r])), Self)

\* A handle was taken, the trie is not empty and the writer is in a publish.
C25_Witness ==
    /\ \E r \in Readers : wrapper[r] # None
    /\ version(db) >= 2
    /\ wpc = "absorb"

\* The sum of the lengths of the key lists of the given families.
RECURSIVE SumCfLen(_, _)
SumCfLen(p, cfs) ==
    IF cfs = {} THEN 0
    ELSE LET cf == CHOOSE c \in cfs : TRUE
         IN  unwrap(cf_len(p, cf)) + SumCfLen(p, cfs \ {cf})

\* C26: in-memory backend, after any sequence of insert and new_cf: the
\* sum of cf_len over all column families equals the number of entries in
\* the storage map.
C26_CfLenSum == SumCfLen(pebble, DOMAIN pebble.cfs) = Len(pebble.inner)

\* The keys of the storage map, and the keys a family lists.
InnerKeys(p) == {p.inner[i].key : i \in DOMAIN p.inner}
ListedKeys(p, cf) == {p.cfs[cf][i] : i \in DOMAIN p.cfs[cf]}

\* C27: in-memory backend, in every reachable state: the union of the
\* prefixed keys listed across all column families is the key set of the
\* storage map, and each prefixed key begins with the 8-byte prefix of
\* exactly one column family and is listed under exactly one family.
C27_PrefixedKeysPartition ==
    /\ UNION {ListedKeys(pebble, cf) : cf \in DOMAIN pebble.cfs} = InnerKeys(pebble)
    /\ \A key \in InnerKeys(pebble) :
          /\ Cardinality({cf \in DOMAIN pebble.cfs : key.prefix = cf_key(cf)}) = 1
          /\ Cardinality({cf \in DOMAIN pebble.cfs : key \in ListedKeys(pebble, cf)}) = 1

\* The prefixed key of the last PebbleDB call.
PresKey == PrefixedKey(pres.cf, pres.key)

\* The last call inserted a key its family already listed.
DuplicateInsert ==
    /\ pres.op = "insert"
    /\ cf_exists(pres.before, pres.cf)
    /\ vec_contains(pres.before.cfs[pres.cf], PresKey)

\* C28: inserting a key that is already present in a column family leaves
\* the family's key list and cf_len unchanged, keeps every entry of the
\* storage map at its position, and replaces the entry's value with the
\* new one.
C28_DuplicateInsert ==
    DuplicateInsert =>
        /\ pebble.cfs = pres.before.cfs
        /\ cf_len(pebble, pres.cf) = cf_len(pres.before, pres.cf)
        /\ [i \in DOMAIN pebble.inner |-> pebble.inner[i].key]
             = [i \in DOMAIN pres.before.inner |-> pres.before.inner[i].key]
        /\ pebble.inner[IndexOf(pebble.inner, PresKey)].value = serialize(pres.value)
        /\ \A i \in DOMAIN pebble.inner :
              i # IndexOf(pebble.inner, PresKey)
                  => pebble.inner[i] = pres.before.inner[i]

\* A key that is not the last entry of the map was given another value.
C28_Witness ==
    /\ DuplicateInsert
    /\ IndexOf(pres.before.inner, PresKey) < Len(pres.before.inner)
    /\ pres.before.inner[IndexOf(pres.before.inner, PresKey)].value
          # serialize(pres.value)

\* C29: column families are created lazily and persist.  An insert into a
\* family that does not exist creates it holding exactly that one prefixed
\* key (cf_len = 1); every call leaves the families that existed and adds
\* at most the one it names, so the families are the names used so far.
C29_LazyFamilies ==
    /\ []((pres.op = "insert" /\ ~cf_exists(pres.before, pres.cf))
              => (cf_len(pebble, pres.cf) = Some(1) /\ pebble.cfs[pres.cf] = <<PresKey>>))
    /\ [](pres.op = "none" => DOMAIN pebble.cfs = {})
    /\ [][DOMAIN pebble'.cfs = DOMAIN pebble.cfs \cup {pres'.cf}]_<<pebble, pres>>

\* Inserts into two missing families, after a family made by new_cf.
C29_Witness ==
    /\ pres.op = "insert"
    /\ ~cf_exists(pres.before, pres.cf)
    /\ Cardinality(DOMAIN pebble.cfs) = 3
    /\ \E cf \in DOMAIN pebble.cfs : cf_len(pebble, cf) = Some(0)

\* C30: new_cf is idempotent.  new_cf of a family that exists returns Ok
\* and leaves the key lists of every family and the storage map as they
\* were; calling it twice leaves what calling it once leaves.
C30_NewCfIdempotent ==
    /\ (pres.op = "new_cf" /\ cf_exists(pres.before, pres.cf))
          => /\ pres.ret = Ok(Unit)
             /\ pebble = pres.before
    /\ \A cf \in ColumnFamilies :
          new_cf(new_cf(pebble, cf).db, cf) = [db |-> new_cf(pebble, cf).db, ret |-> Ok(Unit)]

\* new_cf of a family that lists keys.
C30_Witness ==
    /\ pres.op = "new_cf"
    /\ cf_exists(pres.before, pres.cf)
    /\ Len(pres.before.cfs[pres.cf]) = 2
    /\ Cardinality(DOMAIN pebble.cfs) >= 2

\* C31: a default column family exists and is never removable.  In every
\* reachable state of a database made by PebbleDB::default(),
\* cf_exists(ColumnFamily::default()) is true.
C31_DefaultFamilyExists == cf_exists(pebble, DefaultColumnFamily)

\* C32: insert((k, v), cf) affects only family cf.  The key lists and
\* cf_len of every other column family, the default family included, are
\* what they were, no family but cf appears, and no entry of the storage
\* map other than the one of cf's prefix followed by k is added, modified
\* or removed.
C32_InsertFrame ==
    pres.op = "insert" =>
        /\ \A cf \in ColumnFamilies \ {pres.cf} :
              /\ cf_exists(pebble, cf) = cf_exists(pres.before, cf)
              /\ cf_len(pebble, cf) = cf_len(pres.before, cf)
              /\ cf_exists(pres.before, cf) => pebble.cfs[cf] = pres.before.cfs[cf]
        /\ Len(pebble.inner) >= Len(pres.before.inner)
        /\ \A i \in DOMAIN pebble.inner :
              pebble.inner[i].key # PresKey
                  => (i \in DOMAIN pres.before.inner /\ pebble.inner[i] = pres.before.inner[i])

\* An insert of a new key into a family that is not the default one, while
\* the default family and a third one list keys.
C32_Witness ==
    /\ pres.op = "insert"
    /\ pres.cf # DefaultColumnFamily
    /\ cf_len(pres.before, DefaultColumnFamily) = Some(2)
    /\ Cardinality(DOMAIN pres.before.cfs) = 3
    /\ \E cf \in DOMAIN pres.before.cfs \ {pres.cf, DefaultColumnFamily} :
          Len(pres.before.cfs[cf]) >= 1
    /\ Len(pebble.inner) = Len(pres.before.inner) + 1

\* No reader holds a guard on the copy the writer applies operations to.
GuardsOffWriterCopy == \A r \in Readers : rpc[r] = "in" => guard[r] # Other(rptr)

\* C33: exclusive writer phase.  publish applies a logged operation to a
\* copy only when every reader has left that copy: no reader holds a guard
\* on it, and the step leaves what every reader reads under its guard as
\* it was.
C33_ExclusiveWriterPhase ==
    [][(wpc = "absorb" /\ aidx <= Len(oplog) /\ aidx' = aidx + 1)
          => /\ GuardsOffWriterCopy
             /\ \A r \in Readers :
                   rpc[r] = "in" => Obs(copy[guard[r]])' = Obs(copy[guard[r]])]_vars

\* The 64-bit values.
IsU64(u) == Len(u) = 4 /\ \A i \in 1..4 : u[i] \in 0..(LimbBase - 1)

\* b is a + 1: one limb is one more, the limbs below it go from the
\* greatest limb to 0, the limbs above it stay.
IsSuccessor(a, b) ==
    \E i \in 1..4 :
        /\ a[i] < LimbBase - 1
        /\ b[i] = a[i] + 1
        /\ \A j \in 1..4 :
              /\ j < i => b[j] = a[j]
              /\ j > i => (a[j] = LimbBase - 1 /\ b[j] = 0)

\* C39: version overflow during operation application never panics and
\* never yields an error.  The effective version is always a u64: 0 for a
\* logged version of 2^64 - 1, logged_version + 1 for every other one.
C39_VersionOverflow ==
    /\ vcall.op = "increment_version" =>
          /\ IsU64(vcall.effective)
          /\ IF vcall.logged = U64_MAX
             THEN vcall.effective = U64Default /\ AsNat(vcall.effective) = 0
             ELSE IsSuccessor(vcall.logged, vcall.effective)
    /\ \A vers \in 0..MaxCalls : VersionAfter(vers) = vers + INCREMENT_ARG

\* The operation logged at version 2^64 - 1 has been applied.
C39_Witness ==
    /\ vcall.op = "increment_version"
    /\ vcall.logged = U64_MAX
    /\ vcall.effective = U64Default

\* The writer applies a newly logged operation: at append before the first
\* publish, from the log (past the replayed part) afterwards.
FirstApply == wpc = "append" /\ first /\ wpc' = "wait"
LogApply == wpc = "absorb" /\ aidx <= Len(oplog) /\ aidx' = aidx + 1 /\ aidx > swap_index
AppliedOp == IF wpc = "append" THEN unwrap(pending) ELSE oplog[aidx]

ReplayPending ==
    \A i \in 1..swap_index :
        LET vers == VersionAfter(oplog[i].vers)
            batch == put_value_set(db, oplog[i].kvs, vers).node_batch
        IN  \A kh \in DOMAIN batch.values, c \in 1..2 :
                get(Deref(copy[c]), kh, vers) = batch.values[kh]

\* C35: every logged operation is applied to both copies: to the stale
\* copy during the publish that makes it visible, and to the other copy on
\* the next publish, which replays the same log.  An operation leaves the
\* log only in a publish that has gone through the whole log, the replayed
\* part first; once the replay has happened and no new operation was
\* logged, both copies represent the same tree state, the one built from
\* the value sets of all the calls.
C35_BothCopiesApplied ==
    /\ [](wpc \in {"idle", "append"} => swap_index = Len(oplog))
    /\ [](wpc = "idle" => ReplayPending)
    /\ [][oplog' # oplog =>
            \/ pending # None /\ oplog' = Append(oplog, unwrap(pending))
            \/ /\ wpc = "absorb" /\ aidx > Len(oplog)
               /\ oplog' = SubSeq(oplog, swap_index + 1, Len(oplog))]_vars
    /\ []((wpc = "idle" /\ oplog = <<>>) =>
            /\ Obs(copy[1]) = Obs(copy[2])
            /\ Obs(copy[rptr]) = ObsOf(Rebuilt(Len(CompletedMutations))))

\* Two inserts and a publish: the log has been replayed and is empty.
C35_Witness ==
    /\ wpc = "idle"
    /\ oplog = <<>>
    /\ ~first /\ ~second
    /\ Len(CompletedMutations) = 2
    /\ Last(calls).op = "publish"
    /\ len(Deref(copy[1])) = 2

\* The writer applies an operation: at append before the first publish,
\* from the log, the replayed part included, afterwards.
AnyApply ==
    \/ wpc = "append" /\ first /\ wpc' = "wait"
    \/ wpc = "absorb" /\ aidx <= Len(oplog) /\ aidx' = aidx + 1

\* put_value_set fails for the operation being applied.
PutValueSetFails ==
    ~put_value_set(Deref(copy[Other(rptr)]), AppliedOp.kvs,
                   VersionAfter(AppliedOp.vers)).ok

C37_ApplyAboveLatest ==
    [][AnyApply =>
          VersionAfter(AppliedOp.vers) > version(Deref(copy[Other(rptr)]))]_vars

\* C38: the handle returned by handle() is a clone taken while briefly
\* entered.  When handle() has returned the read guard is released: a
\* thread that holds a JellyfishMerkleTreeWrapper and is not inside
\* handle() holds no guard, its epoch is even, and the wait of a later
\* publish passes it; with every thread outside handle() the wait of
\* publish can always proceed.
C38_HandleReleasesGuard ==
    /\ \A r \in Readers :
          (wrapper[r] # None /\ rpc[r] = "out")
              => (guard[r] = 0 /\ epoch[r] % 2 = 0 /\ Departed(r))
    /\ (wpc = "wait" /\ \A r \in Readers : rpc[r] = "out") => ENABLED WaitScan

\* A publish waits while a thread holds a wrapper it took inside the
\* previous publish: its epoch was odd when that publish recorded it.
C38_Witness ==
    /\ wpc = "wait"
    /\ calls # <<>>
    /\ wrapper[1] # None
    /\ rpc[1] = "out"
    /\ last_epochs[1] % 2 = 1

\* The last wrapper call was an insert or a remove whose put_value_set
\* failed.
WrapperPutFailed ==
    /\ wres.op \in {"insert", "remove"}
    /\ ~put_value_set(wres.before, <<<<ResKey, wres.value>>>>,
                      version(wres.before) + 1).ok

\* C40: when put_value_set fails inside JellyfishMerkleTreeWrapper::insert
\* or remove, the call returns an error, write_node_batch is not invoked
\* (nothing is written to the backend), and version() and every value that
\* was readable are what they were.
C40_WrapperPutValueSetFailure ==
    WrapperPutFailed =>
        /\ ~wres.ret.ok
        /\ wres.ret = Err("Other: put_value_set")
        /\ db.value_history = wres.before.value_history
        /\ version(db) = version(wres.before)
        /\ \A k \in Keys, vers \in ReadVersions :
              wrapper_get(db, k, vers) = wrapper_get(wres.before, k, vers)

\* The removal of a key that is contained has failed, at version 2.
C40_Witness ==
    /\ WrapperPutFailed
    /\ wres.op = "remove"
    /\ version(db) = 2
    /\ contains(db, ResKey, version(db))
====
